---- MODULE Spec2Model ----
(***************************************************************************)
(* A model of organize.py: the script that reads the games of an input     *)
(* directory and copies each one to <output>/<region>/<first character>.   *)
(*                                                                         *)
(* A Python str is a sequence of one-character strings.  A position in     *)
(* the file system is the sequence of the components of its path, so that  *)
(* "out/USA" and "out//USA/" name the same directory, as they do on POSIX. *)
(***************************************************************************)
EXTENDS Integers, Sequences, FiniteSets, TLC

VARIABLES
    output_dir,       \* args.output_dir
    input_exists,     \* os.path.exists(args.input_dir)
    tree,             \* the files os.walk(args.input_dir) yields, in order: [dir, name]
    infiles,          \* the files under args.input_dir: position -> content
    dirs,             \* the directories outside the input directory
    files,            \* the files outside the input directory: position -> content
    mkdir_fail,       \* the directory os.mkdir refuses to create (<<>>: none)
    badsrc,           \* the input file that cannot be read (<<>>: none)
    pc,               \* where the script is
    exit_code,        \* the exit code of the process, -1 while it runs
    i,                \* the position of the walk in tree
    game_count,       \* organize's game_count
    region,           \* move_game's region
    first_char,       \* move_game's first_char
    destination_dir,  \* move_game's destination_dir
    log,              \* the log file, one record per entry
    stderr,           \* the traceback of an uncaught exception
    run               \* which run of the script this is

vars == <<output_dir, input_exists, tree, infiles, dirs, files, mkdir_fail, badsrc,
          pc, exit_code, i, game_count, region, first_char, destination_dir,
          log, stderr, run>>

\* ------------------------------------------------------------------ bounds

MaxTokens == 5

MaxFiles == 3

\* ----------------------------------------------------------------- strings

Upper == {"A", "B", "C", "D", "E", "F", "G", "H", "I", "J", "K", "L", "M",
          "N", "O", "P", "Q", "R", "S", "T", "U", "V", "W", "X", "Y", "Z"}

Lower == {"a", "b", "c", "d", "e", "f", "g", "h", "i", "j", "k", "l", "m",
          "n", "o", "p", "q", "r", "s", "t", "u", "v", "w", "x", "y", "z"}

Digits == {"0", "1", "2", "3", "4", "5", "6", "7", "8", "9"}

Whitespace == {" ", "\t", "\n", "\r"}

Min(S) == CHOOSE x \in S : \A y \in S : x <= y

Max(S) == CHOOSE x \in S : \A y \in S : y <= x

RECURSIVE Flatten(_)
Flatten(ss) == IF ss = <<>> THEN <<>> ELSE Head(ss) \o Flatten(Tail(ss))

\* sub in s
Contains(s, sub) ==
    \E k \in 0..(Len(s) - Len(sub)) : SubSeq(s, k + 1, k + Len(sub)) = sub

\* s.split(c)[0]
SplitFirst(s, c) ==
    LET at == {k \in 1..Len(s) : s[k] = c}
    IN  IF at = {} THEN s ELSE SubSeq(s, 1, Min(at) - 1)

\* s.strip()
Strip(s) ==
    LET keep == {k \in 1..Len(s) : s[k] \notin Whitespace}
    IN  IF keep = {} THEN <<>> ELSE SubSeq(s, Min(keep), Max(keep))

\* os.path.join(a, b) on POSIX
os_path_join(a, b) ==
    IF b # <<>> /\ b[1] = "/" THEN b
    ELSE IF a = <<>> \/ a[Len(a)] = "/" THEN a \o b
    ELSE a \o <<"/">> \o b

\* The components of a path: what the kernel's path resolution walks.
Comps(p) ==
    LET cut == {0, Len(p) + 1} \cup {k \in 1..Len(p) : p[k] = "/"}
        part(k) == SubSeq(p, k + 1, Min({c \in cut : c > k}) - 1)
        starts == {k \in cut : k <= Len(p) /\ part(k) # <<>>}
        RECURSIVE from(_)
        from(S) == IF S = {} THEN <<>>
                   ELSE <<part(Min(S))>> \o from(S \ {Min(S)})
    IN  from(starts)

USA == <<"U", "S", "A">>

Europe == <<"E", "u", "r", "o", "p", "e">>

Japan == <<"J", "a", "p", "a", "n">>

Other == <<"O", "t", "h", "e", "r">>

BIOS == <<"B", "I", "O", "S">>

\* ------------------------------------------------------- regular expressions

\* ALPHA_NUMERIC = re.compile(r'([A-Za-z0-9])'): the class it matches
ALPHA_NUMERIC == Upper \cup Lower \cup Digits

\* ALPHA_NUMERIC.search(s): the position of the match, 0 for None
ALPHA_NUMERIC_search(s) ==
    LET at == {k \in 1..Len(s) : s[k] \in ALPHA_NUMERIC}
    IN  IF at = {} THEN 0 ELSE Min(at)

\* REGION = re.compile(r'\(([A-Za-z0-9 ,]+)\)'): the class inside the parentheses
REGION == ALPHA_NUMERIC \cup {" ", ","}

\* Where the greedy [A-Za-z0-9 ,]+ that starts at p stops: the first position
\* at or after p that is outside the class.
RunEnd(s, p) == Min({q \in p..(Len(s) + 1) : q = Len(s) + 1 \/ s[q] \notin REGION})

\* The pattern matches at p: "(", a non-empty run of the class, ")".  The class
\* holds no ")", so backtracking into the run finds nothing more.
REGION_match_at(s, p) ==
    /\ s[p] = "("
    /\ RunEnd(s, p + 1) > p + 1
    /\ RunEnd(s, p + 1) <= Len(s)
    /\ s[RunEnd(s, p + 1)] = ")"

\* REGION.search(s): the leftmost match; found = FALSE for None
REGION_search(s) ==
    LET at == {p \in 1..Len(s) : REGION_match_at(s, p)}
    IN  IF at = {} THEN [found |-> FALSE, group |-> <<>>]
        ELSE [found |-> TRUE,
              group |-> SubSeq(s, Min(at) + 1, RunEnd(s, Min(at) + 1) - 1)]

\* NUMERIC = re.compile(r'\d+'); NUMERIC.match(s)
NUMERIC_match(s) == s # <<>> /\ s[1] \in Digits

\* ------------------------------------------------------------ configuration

\* args.input_dir
input_dir == <<"i", "n">>

\* The values --output-dir takes: with and without a trailing separator.
OutputRoot == <<"o", "u", "t">>

OutputRoots == {OutputRoot, OutputRoot \o <<"/">>}

\* -------------------------------------------------------------- file system

NoFiles == [p \in {} |-> <<>>]

\* move_game without its test of os.path.exists: every directory is created anew
exists_nothing(p) == FALSE

\* os.path.exists(p), for a path outside the input directory
exists(p) == Comps(p) \in dirs \/ Comps(p) \in DOMAIN files

\* os.makedirs(d): the directories of d's path are made from the top down; the
\* first one that cannot be made raises OSError and leaves the ones above it.
makedirs(d) ==
    LET c == Comps(d)
        pre(k) == SubSeq(c, 1, k)
        missing == {k \in 1..Len(c) : pre(k) \notin dirs}
        blocked == {k \in missing : pre(k) = mkdir_fail \/ pre(k) \in DOMAIN files}
                   \cup {k \in {Len(c)} : pre(k) \in dirs}
    IN  IF blocked = {}
        THEN [ok |-> TRUE, dirs |-> dirs \cup {pre(k) : k \in missing}]
        ELSE [ok |-> FALSE,
              dirs |-> dirs \cup {pre(k) : k \in {m \in missing : m < Min(blocked)}}]

\* shutil.copyfile(source, destination) raises: the source is not there or
\* cannot be read, or the destination is a directory.
copyfile_raises(source, destination) ==
    \/ Comps(source) \notin DOMAIN infiles
    \/ Comps(source) = badsrc
    \/ Comps(destination) \in dirs

\* the files after shutil.copyfile(source, destination)
copyfile(source, destination) ==
    [p \in DOMAIN files \cup {Comps(destination)} |->
        IF p = Comps(destination) THEN infiles[Comps(source)] ELSE files[p]]

\* ---------------------------------------------------------------------- log

Entry(level, event, a, b) == [level |-> level, event |-> event, a |-> a, b |-> b]

\* abort(message): the two error entries; the process then exits with 1
abort(lg, event, a) ==
    lg \o <<Entry("ERROR", event, a, <<>>), Entry("ERROR", "Aborted", <<>>, <<>>)>>

\* create_dir(dir) when os.makedirs raises: log.error(e), then abort
create_dir_failed(lg, d) ==
    abort(lg \o <<Entry("ERROR", "OSError", d, <<>>)>>, "Failed to create", d)

\* --------------------------------------------------------------- move_game

\* the region move_game settles on
resolve_region(game) ==
    LET match == REGION_search(game)
    IN  IF match.found
        THEN IF "," \in {match.group[k] : k \in 1..Len(match.group)}
             THEN IF Contains(match.group, USA)
                  THEN USA
                  ELSE Strip(SplitFirst(match.group, ","))
             ELSE match.group
        ELSE USA

\* the log after move_game has settled on the region
region_logged(lg, game) ==
    IF REGION_search(game).found THEN lg
    ELSE lg \o <<Entry("WARNING", "no region", game, <<>>)>>

\* first_char without the '#' of the numeric titles
bucket_raw(game) == <<game[ALPHA_NUMERIC_search(game)]>>

\* first_char, once a match is known to exist
bucket(game) ==
    LET c == <<game[ALPHA_NUMERIC_search(game)]>>
    IN  IF NUMERIC_match(c) THEN <<"#">> ELSE c

\* every region given the directory of the first character
get_destination_dir_bucketed(r, c) ==
    IF r \in {Europe, Japan, USA}
    THEN os_path_join(os_path_join(output_dir, r), c)
    ELSE os_path_join(os_path_join(os_path_join(output_dir, Other), r), c)

get_destination_dir(r, c) ==
    IF r \in {Europe, Japan, USA}
    THEN os_path_join(os_path_join(output_dir, r), c)
    ELSE os_path_join(os_path_join(output_dir, Other), r)

\* the log once the destination directory is known to be missing
create_logged(lg, d) ==
    lg \o <<Entry("INFO", "not found; attempting to create", d, <<>>)>>

\* the log when move_game reaches the copy
copy_logged(lg, game, d) ==
    (IF exists(d) THEN lg ELSE create_logged(lg, d))
    \o <<Entry("INFO", "Copy", os_path_join(input_dir, game), os_path_join(d, game))>>

\* ----------------------------------------------------------------- the script

\* the file the walk is at
game == tree[i].name

\* game.startswith('BIOS') in the place of 'BIOS' in game
is_bios_prefix(g) == Len(g) >= Len(BIOS) /\ SubSeq(g, 1, Len(BIOS)) = BIOS

\* 'BIOS' in game
is_bios(g) == Contains(g, BIOS)

walking == pc = "walk" /\ i <= Len(tree)

env == <<output_dir, input_exists, tree, mkdir_fail, badsrc, run>>

locals == <<region, first_char, destination_dir>>

\* __main__: log.info('Start'), log_args()
Main ==
    /\ pc = "main"
    /\ log' = log \o <<Entry("INFO", "Start", <<>>, <<>>),
                       Entry("INFO", "Script Arguments", input_dir, output_dir)>>
    /\ pc' = "organize"
    /\ UNCHANGED <<env, infiles, dirs, files, exit_code, i, game_count, locals, stderr>>

\* organize: the input directory does not exist
InputMissing ==
    /\ pc = "organize"
    /\ ~input_exists
    /\ log' = abort(log, "Input directory doesn't exist", input_dir)
    /\ pc' = "exited"
    /\ exit_code' = 1
    /\ UNCHANGED <<env, infiles, dirs, files, i, game_count, locals, stderr>>

\* organize: the output directory is there, or is created; the walk starts
OutputReady ==
    /\ pc = "organize"
    /\ input_exists
    /\ IF exists(output_dir)
       THEN UNCHANGED <<dirs, log>>
       ELSE /\ makedirs(output_dir).ok
            /\ dirs' = makedirs(output_dir).dirs
            /\ log' = create_logged(log, output_dir)
    /\ pc' = "walk"
    /\ i' = 1
    /\ game_count' = 0
    /\ UNCHANGED <<env, infiles, files, exit_code, locals, stderr>>

\* organize: the output directory cannot be created
OutputFail ==
    /\ pc = "organize"
    /\ input_exists
    /\ ~exists(output_dir)
    /\ ~makedirs(output_dir).ok
    /\ dirs' = makedirs(output_dir).dirs
    /\ log' = create_dir_failed(create_logged(log, output_dir), output_dir)
    /\ pc' = "exited"
    /\ exit_code' = 1
    /\ UNCHANGED <<env, infiles, files, i, game_count, locals, stderr>>

\* organize: 'BIOS' in game
SkipBIOS ==
    /\ walking
    /\ is_bios(game)
    /\ log' = log \o <<Entry("INFO", "Skipping BIOS file", game, <<>>)>>
    /\ i' = i + 1
    /\ UNCHANGED <<env, infiles, dirs, files, pc, exit_code, game_count, locals, stderr>>

\* move_game aborting where it returns early
MoveGameSkip_abort ==
    /\ walking
    /\ ~is_bios(game)
    /\ ALPHA_NUMERIC_search(game) = 0
    /\ region' = resolve_region(game)
    /\ log' = abort(region_logged(log, game), "no alpha numeric character", game)
    /\ pc' = "exited"
    /\ exit_code' = 1
    /\ UNCHANGED <<env, infiles, dirs, files, i, game_count, first_char,
                   destination_dir, stderr>>

\* move_game returns early: no alphanumeric character; organize counts the game
MoveGameSkip ==
    /\ walking
    /\ ~is_bios(game)
    /\ ALPHA_NUMERIC_search(game) = 0
    /\ region' = resolve_region(game)
    /\ log' = region_logged(log, game)
                \o <<Entry("WARNING", "no alpha numeric character; skipping", game, <<>>)>>
    /\ i' = i + 1
    /\ game_count' = game_count + 1
    /\ UNCHANGED <<env, infiles, dirs, files, pc, exit_code, first_char,
                   destination_dir, stderr>>

\* create_dir logging the failure and returning: an abort that does not exit
MoveGameCreateFail_continue ==
    /\ walking
    /\ ~is_bios(game)
    /\ ALPHA_NUMERIC_search(game) # 0
    /\ LET d == get_destination_dir(resolve_region(game), bucket(game))
       IN  /\ ~exists(d)
           /\ ~makedirs(d).ok
           /\ region' = resolve_region(game)
           /\ first_char' = bucket(game)
           /\ destination_dir' = d
           /\ dirs' = makedirs(d).dirs
           /\ log' = create_dir_failed(create_logged(region_logged(log, game), d), d)
    /\ i' = i + 1
    /\ game_count' = game_count + 1
    /\ UNCHANGED <<env, infiles, files, pc, exit_code, stderr>>

\* move_game: the destination directory cannot be created
MoveGameCreateFail ==
    /\ walking
    /\ ~is_bios(game)
    /\ ALPHA_NUMERIC_search(game) # 0
    /\ LET d == get_destination_dir(resolve_region(game), bucket(game))
       IN  /\ ~exists(d)
           /\ ~makedirs(d).ok
           /\ region' = resolve_region(game)
           /\ first_char' = bucket(game)
           /\ destination_dir' = d
           /\ dirs' = makedirs(d).dirs
           /\ log' = create_dir_failed(create_logged(region_logged(log, game), d), d)
    /\ pc' = "exited"
    /\ exit_code' = 1
    /\ UNCHANGED <<env, infiles, files, i, game_count, stderr>>

\* move_game: shutil.copyfile raises, nothing catches it, the interpreter
\* prints the traceback and exits with 1
MoveGameCopyFail ==
    /\ walking
    /\ ~is_bios(game)
    /\ ALPHA_NUMERIC_search(game) # 0
    /\ LET d == get_destination_dir(resolve_region(game), bucket(game))
       IN  /\ exists(d) \/ makedirs(d).ok
           /\ copyfile_raises(os_path_join(input_dir, game), os_path_join(d, game))
           /\ region' = resolve_region(game)
           /\ first_char' = bucket(game)
           /\ destination_dir' = d
           /\ dirs' = IF exists(d) THEN dirs ELSE makedirs(d).dirs
           /\ log' = copy_logged(region_logged(log, game), game, d)
           /\ stderr' = stderr \o <<os_path_join(input_dir, game)>>
    /\ pc' = "exited"
    /\ exit_code' = 1
    /\ UNCHANGED <<env, infiles, files, i, game_count>>

\* move_game copies the game; organize counts it
MoveGameCopy ==
    /\ walking
    /\ ~is_bios(game)
    /\ ALPHA_NUMERIC_search(game) # 0
    /\ LET d == get_destination_dir(resolve_region(game), bucket(game))
       IN  /\ exists(d) \/ makedirs(d).ok
           /\ ~copyfile_raises(os_path_join(input_dir, game), os_path_join(d, game))
           /\ region' = resolve_region(game)
           /\ first_char' = bucket(game)
           /\ destination_dir' = d
           /\ dirs' = IF exists(d) THEN dirs ELSE makedirs(d).dirs
           /\ log' = copy_logged(region_logged(log, game), game, d)
           /\ files' = copyfile(os_path_join(input_dir, game), os_path_join(d, game))
    /\ i' = i + 1
    /\ game_count' = game_count + 1
    /\ UNCHANGED <<env, infiles, pc, exit_code, stderr>>

\* organize returns game_count; __main__ logs it and the script ends
Finish ==
    /\ pc = "walk"
    /\ i > Len(tree)
    /\ log' = log \o <<Entry("INFO", "Processed games", <<game_count>>, <<>>),
                       Entry("INFO", "Finish", <<>>, <<>>)>>
    /\ pc' = "exited"
    /\ exit_code' = 0
    /\ UNCHANGED <<env, infiles, dirs, files, i, game_count, locals, stderr>>

\* The script is started a second time on the same directories.
RunAgain ==
    /\ pc = "exited"
    /\ exit_code = 0
    /\ run = 1
    /\ run' = 2
    /\ pc' = "main"
    /\ exit_code' = -1
    /\ i' = 0
    /\ game_count' = 0
    /\ region' = <<>>
    /\ first_char' = <<>>
    /\ destination_dir' = <<>>
    /\ UNCHANGED <<output_dir, input_exists, tree, mkdir_fail, badsrc, infiles,
                   dirs, files, log, stderr>>

\* ------------------------------------------------------- the input directories

top == <<>>

sub == <<"s", "u", "b">>

HongKong == <<"H", "o", "n", "g", " ", "K", "o", "n", "g">>

\* "P(USA)", "7(Europe)", "m(Hong Kong)", "[BIOS]P(USA)", "--", "N(Japan)"
Pacman == <<"P", "(">> \o USA \o <<")">>

GoldenEye == <<"7", "(">> \o Europe \o <<")">>

Mystery == <<"m", "(">> \o HongKong \o <<")">>

SystemFile == <<"[">> \o BIOS \o <<"]">> \o Pacman

Dashes == <<"-", "-">>

Nested == <<"N", "(">> \o Japan \o <<")">>

\* The files an input directory is drawn from: at its top, and in a subdirectory.
Catalogue ==
    {[dir |-> top, name |-> n] : n \in {Pacman, GoldenEye, Mystery, SystemFile, Dashes}}
    \cup {[dir |-> sub, name |-> n] : n \in {Nested, Pacman, BIOS}}

\* where the file of an entry resides
Position(e) == Comps(os_path_join(os_path_join(input_dir, e.dir), e.name))

\* os.walk is top-down: the files of the top directory come before those below
\* it; within a directory the order is the listing's.
Walks ==
    UNION {{w \in [1..n -> Catalogue] :
              /\ \A j, k \in 1..n : j # k => w[j] # w[k]
              /\ \A j, k \in 1..n : j < k /\ w[k].dir = top => w[j].dir = top}
           : n \in 0..MaxFiles}

\* One thing at most goes wrong in the environment of a run.
MkdirFaults ==
    {<<OutputRoot>>, <<OutputRoot, USA>>, <<OutputRoot, USA, <<"P">>>>, <<OutputRoot, Other>>}

ReadFaults == {Position([dir |-> top, name |-> n]) : n \in {Pacman, Mystery}}

Faults ==
    {[mkdir |-> <<>>, read |-> <<>>]}
    \cup {[mkdir |-> d, read |-> <<>>] : d \in MkdirFaults}
    \cup {[mkdir |-> <<>>, read |-> f] : f \in ReadFaults}

Init ==
    /\ output_dir \in OutputRoots
    /\ input_exists \in BOOLEAN
    /\ tree \in IF input_exists THEN Walks ELSE {<<>>}
    /\ infiles = [p \in {Position(tree[k]) : k \in 1..Len(tree)} |-> p]
    /\ dirs \in {{}, {<<OutputRoot>>}}
    /\ files = NoFiles
    /\ \E f \in Faults : mkdir_fail = f.mkdir /\ badsrc = f.read
    /\ pc = "main"
    /\ exit_code = -1
    /\ i = 0
    /\ game_count = 0
    /\ region = <<>>
    /\ first_char = <<>>
    /\ destination_dir = <<>>
    /\ log = <<>>
    /\ stderr = <<>>
    /\ run = 1

Next ==
    \/ Main
    \/ InputMissing
    \/ OutputReady
    \/ OutputFail
    \/ SkipBIOS
    \/ MoveGameSkip
    \/ MoveGameCreateFail
    \/ MoveGameCopyFail
    \/ MoveGameCopy
    \/ Finish
    \/ RunAgain

Spec == Init /\ [][Next]_vars

\* --------------------------------------------------- move_game on any file name

\* the pieces file names are made of
Tokens == {<<"(">>, <<")">>, <<",">>, <<" ">>, <<"a">>, <<"7">>, USA}

Names == {Flatten(ts) : ts \in UNION {[1..n -> Tokens] : n \in 1..MaxTokens}}

\* The walk is at the only file of the input directory.
InitFn ==
    /\ output_dir = OutputRoot
    /\ input_exists = TRUE
    /\ tree \in {<<[dir |-> top, name |-> n]>> : n \in Names}
    /\ infiles = [p \in {Position(tree[1])} |-> p]
    /\ dirs = {<<OutputRoot>>}
    /\ files = NoFiles
    /\ mkdir_fail = <<>>
    /\ badsrc = <<>>
    /\ pc = "walk"
    /\ exit_code = -1
    /\ i = 1
    /\ game_count = 0
    /\ region = <<>>
    /\ first_char = <<>>
    /\ destination_dir = <<>>
    /\ log = <<Entry("INFO", "Start", <<>>, <<>>),
               Entry("INFO", "Script Arguments", input_dir, output_dir)>>
    /\ stderr = <<>>
    /\ run = 1

NextFn ==
    \/ MoveGameSkip
    \/ MoveGameCopy

SpecFn == InitFn /\ [][NextFn]_vars

\* ------------------------------------------ get_destination_dir on any region

MaxRegionTokens == 2

RegionTokens == {USA, Japan, Europe, Other, <<" ">>, <<"a">>}

\* the regions move_game can settle on: strings of the class of REGION
Regions == {Flatten(ts) : ts \in UNION {[1..n -> RegionTokens] : n \in 0..MaxRegionTokens}}

\* the values of first_char: "#", or a letter with its case
Buckets == {<<"#">>, <<"a">>, <<"A">>, <<"P">>}

\* move_game has settled on region and first_char and is about to call
\* get_destination_dir.
InitDest ==
    /\ output_dir \in OutputRoots
    /\ input_exists = TRUE
    /\ tree = <<>>
    /\ infiles = NoFiles
    /\ dirs = {<<OutputRoot>>}
    /\ files = NoFiles
    /\ mkdir_fail = <<>>
    /\ badsrc = <<>>
    /\ pc = "get_destination_dir"
    /\ exit_code = -1
    /\ i = 1
    /\ game_count = 0
    /\ region \in Regions
    /\ first_char \in Buckets
    /\ destination_dir = <<>>
    /\ log = <<>>
    /\ stderr = <<>>
    /\ run = 1

\* destination_dir = get_destination_dir(region, first_char)
Destination ==
    /\ pc = "get_destination_dir"
    /\ destination_dir' = get_destination_dir(region, first_char)
    /\ pc' = "destination_dir"
    /\ UNCHANGED <<env, infiles, dirs, files, exit_code, i, game_count, region,
                   first_char, log, stderr>>

SpecDest == InitDest /\ [][Destination]_vars

\* ------------------------------------------------------------------- claims

\* the entries the current run has written to the log
ThisRunLog ==
    LET starts == {k \in 1..Len(log) : log[k].event = "Start"}
    IN  IF starts = {} THEN log ELSE SubSeq(log, Max(starts), Len(log))

\* the log before the current run
EarlierLog ==
    LET starts == {k \in 1..Len(log) : log[k].event = "Start"}
    IN  IF starts = {} THEN <<>> ELSE SubSeq(log, 1, Max(starts) - 1)

IsCopy(e) == e.event = "Copy"

Copies(lg) == SelectSeq(lg, IsCopy)

HasAlphaNumeric(n) == \E k \in 1..Len(n) : n[k] \in Upper \cup Lower \cup Digits

\* the parts of a path written one after the other with "/" between them
RECURSIVE Slashed(_)
Slashed(parts) ==
    IF Len(parts) = 1 THEN parts[1]
    ELSE parts[1] \o <<"/">> \o Slashed(Tail(parts))

C2_Groups(n) ==
    {g \in (1..Len(n)) \X (1..Len(n)) :
        /\ g[1] + 1 < g[2]
        /\ n[g[1]] = "("
        /\ n[g[2]] = ")"
        /\ \A k \in (g[1] + 1)..(g[2] - 1) : n[k] \in Upper \cup Lower \cup Digits \cup {" ", ","}}

C2_FirstGroup(n) ==
    LET g == CHOOSE g \in C2_Groups(n) : \A h \in C2_Groups(n) : g[1] <= h[1]
    IN  SubSeq(n, g[1] + 1, g[2] - 1)

\* the comma-separated tags of a group, trimmed
C2_Tags(g) ==
    LET cut == {0, Len(g) + 1} \cup {k \in 1..Len(g) : g[k] = ","}
    IN  {Strip(SubSeq(g, k + 1, Min({c \in cut : c > k}) - 1)) : k \in cut \ {Len(g) + 1}}

C2_Claimed(n) ==
    IF C2_Groups(n) = {} THEN USA
    ELSE LET g == C2_FirstGroup(n)
         IN  IF \E k \in 1..Len(g) : g[k] = ","
             THEN IF USA \in C2_Tags(g) THEN USA ELSE Strip(SplitFirst(g, ","))
             ELSE g

\* C2: the region move_game resolves is USA when the name has no parenthesized
\* group of allowed characters (a warning is logged and the file is still
\* routed); otherwise, on the first such group: USA when the group has a comma
\* and USA is one of its comma-separated tags, the first tag trimmed when it has
\* a comma and no USA tag, and the group unchanged when it has no comma.
C2_Region ==
    (pc = "walk" /\ i = 2) =>
        LET n == tree[1].name
        IN  /\ region = C2_Claimed(n)
            /\ C2_Groups(n) = {} =>
                 \E k \in 1..Len(log) : log[k].event = "no region" /\ log[k].a = n
            /\ C2_Groups(n) = {} /\ HasAlphaNumeric(n) =>
                 Comps(os_path_join(destination_dir, n)) \in DOMAIN files

\* C3: when the name has a character in [A-Za-z0-9], the bucket is decided by the
\* leftmost one: '#' when it is a digit, else the character itself, case kept.
C3_Bucket ==
    (pc = "walk" /\ i = 2 /\ HasAlphaNumeric(tree[1].name)) =>
        LET n == tree[1].name
            k == CHOOSE k \in 1..Len(n) :
                    /\ n[k] \in Upper \cup Lower \cup Digits
                    /\ \A j \in 1..(k - 1) : n[j] \notin Upper \cup Lower \cup Digits
        IN  first_char = IF n[k] \in Digits THEN <<"#">> ELSE <<n[k]>>

\* " (7a": the leftmost alphanumeric character is the digit after the parenthesis
C3_Witness ==
    /\ pc = "walk"
    /\ i = 2
    /\ tree[1].name = <<" ", "(", "7", "a">>
    /\ first_char = <<"#">>

\* C4: a file whose name contains BIOS is never copied, no destination is
\* computed and no directory created for it, and the walk goes on to the next file.
C4_BiosSkipped ==
    [][(walking /\ Contains(game, BIOS)) =>
            /\ files' = files
            /\ dirs' = dirs
            /\ destination_dir' = destination_dir
            /\ Copies(log') = Copies(log)
            /\ pc' = "walk"
            /\ exit_code' = exit_code
            /\ i' = i + 1]_vars

\* a run that met "[BIOS]P(USA)" went on and copied a game after it
C4_Witness ==
    /\ pc = "exited"
    /\ exit_code = 0
    /\ tree = <<[dir |-> top, name |-> SystemFile], [dir |-> top, name |-> GoldenEye]>>
    /\ DOMAIN files = {<<OutputRoot, Europe, <<"#">>, GoldenEye>>}

\* the log of the current run says what was done with the file of this name
C5_Handled(n) ==
    \E k \in 1..Len(ThisRunLog) :
        \/ /\ ThisRunLog[k].event \in {"Skipping BIOS file",
                                       "no alpha numeric character; skipping"}
           /\ ThisRunLog[k].a = n
        \/ /\ ThisRunLog[k].event = "Copy"
           /\ ThisRunLog[k].a = os_path_join(input_dir, n)

\* C5: a file whose name has no character in [A-Za-z0-9] is skipped: nothing is
\* created or copied for it and the run is not aborted; every file after it is
\* still processed, and the run can end with exit code 0.
C5_NoBucketSkipped ==
    /\ [][(walking /\ ~Contains(game, BIOS) /\ ~HasAlphaNumeric(game)) =>
            /\ files' = files
            /\ dirs' = dirs
            /\ destination_dir' = destination_dir
            /\ pc' = "walk"
            /\ exit_code' = -1
            /\ i' = i + 1]_vars
    /\ []((pc = "exited" /\ exit_code = 0) =>
            /\ i = Len(tree) + 1
            /\ \A k \in 1..Len(tree) : C5_Handled(tree[k].name))

\* "--" came first, the game after it was copied, and the run ended with 0
C5_Witness ==
    /\ pc = "exited"
    /\ exit_code = 0
    /\ tree = <<[dir |-> top, name |-> Dashes], [dir |-> top, name |-> Mystery]>>
    /\ DOMAIN files = {<<OutputRoot, Other, HongKong, Mystery>>}

\* C6: every file of the walk that is not skipped is copied from the place where
\* it resides, at any depth under the input directory, to <destination>/<name>,
\* and the run goes on (nothing being wrong in the environment).
C6_CopiedFromWhereItResides ==
    [][(/\ walking
        /\ ~Contains(game, BIOS)
        /\ HasAlphaNumeric(game)
        /\ mkdir_fail = <<>>
        /\ badsrc = <<>>) =>
            /\ pc' = "walk"
            /\ Comps(os_path_join(destination_dir', game)) \in DOMAIN files'
            /\ files'[Comps(os_path_join(destination_dir', game))]
                 = infiles[Position(tree[i])]]_vars

\* a directory of this path is missing and is the one that cannot be created
C7_CannotCreate(d) ==
    /\ Comps(d) \notin dirs
    /\ \E k \in 1..Len(Comps(d)) :
          /\ SubSeq(Comps(d), 1, k) \notin dirs
          /\ SubSeq(Comps(d), 1, k) = mkdir_fail

\* the fatal conditions: what the next step of the script runs into
C7_Fatal ==
    \/ pc = "organize" /\ ~input_exists
    \/ pc = "organize" /\ input_exists /\ C7_CannotCreate(output_dir)
    \/ /\ walking
       /\ ~Contains(game, BIOS)
       /\ HasAlphaNumeric(game)
       /\ \/ C7_CannotCreate(get_destination_dir(resolve_region(game), bucket(game)))
          \/ Comps(os_path_join(input_dir, game)) \notin DOMAIN infiles
          \/ Comps(os_path_join(input_dir, game)) = badsrc

\* C7: a fatal condition (input directory missing, a directory that cannot be
\* created, an I/O failure of the copy) ends the run with exit code 1; nothing
\* is classified, copied or created after it; and with the input directory
\* missing nothing is created or copied at all.
C7_FatalEndsRun ==
    /\ [][C7_Fatal =>
            /\ pc' = "exited"
            /\ exit_code' = 1
            /\ files' = files
            /\ i' = i
            /\ game_count' = game_count]_vars
    /\ [][(pc = "exited" /\ exit_code = 1) =>
            UNCHANGED <<dirs, files, i, game_count, locals, log>>]_vars
    /\ [][~input_exists => (dirs' = dirs /\ files' = files)]_vars

\* the copy of the second of three games failed: the run ended with 1, the
\* first game copied and the third not looked at
C7_Witness ==
    /\ pc = "exited"
    /\ exit_code = 1
    /\ Len(tree) = 3
    /\ i = 2
    /\ badsrc = Position(tree[2])
    /\ Cardinality(DOMAIN files) = 1
    /\ stderr # <<>>

C9_CountIsCopies ==
    (pc = "exited" /\ exit_code = 0) => game_count = Len(Copies(ThisRunLog))

\* C10: every run that ends with exit code 1 has written an error entry to the
\* log: for a missing input directory, a directory that cannot be created, and
\* an I/O failure of the copy.
C10_ErrorLogged ==
    (pc = "exited" /\ exit_code = 1) =>
        \E k \in 1..Len(ThisRunLog) : ThisRunLog[k].level = "ERROR"

====
